---- MODULE Spec2Model ----
(***************************************************************************)
(* Model of autogpt/llm_utils.py: the retry/backoff loops of               *)
(* create_chat_completion and create_embedding_with_ada, and the           *)
(* continuation stitching of sendReq.                                      *)
(*                                                                         *)
(* Texts are sequences of one-character strings.  The provider is the      *)
(* environment: every provider call either returns a response or raises    *)
(* one of the provider errors.                                             *)
(***************************************************************************)
EXTENDS Integers, Sequences, FiniteSets, TLC

\* ---------------------------------------------------------------- bounds
\* longest fragment the provider returns in one response
MaxFragLen == 1
\* most continuation requests inside one sendReq call
MaxRounds == 1

\* ------------------------------------------------------ program constants
num_retries_off_by_one == 10 + 1
num_retries == 10

CONTINUE_PROMPT == "... continue"
\* turn markers of the Claude client and the question, as opaque tokens
HUMAN_PROMPT == "HUMAN_PROMPT"
AI_PROMPT == "AI_PROMPT"
QUESTION == "question"

\* ------------------------------------------------------------ environment
\* characters of a fragment: a letter, the space, another whitespace
Chars == {"x", " ", "\n"}

RECURSIVE SeqsUpTo(_)
SeqsUpTo(n) ==
    IF n = 0 THEN {<<>>}
    ELSE LET S == SeqsUpTo(n - 1)
         IN  S \cup {Append(s, c) : s \in {t \in S : Len(t) = n - 1}, c \in Chars}

Fragments == SeqsUpTo(MaxFragLen)

\* stop_reason of a completion response of the Claude client
ClaudeStopReasons == {"stop_sequence", "max_tokens"}
\* finish_reason of choices[0] of a chat response
ChatFinishReasons == {"stop", "length"}
\* embeddings carried by the entries of an embedding response
Vectors == {"v1", "v2"}
EmbeddingData == {<<a>> : a \in Vectors} \cup {<<a, b>> : a \in Vectors, b \in Vectors}

NoExc == [type |-> "none", http_status |-> 0]
\* errors a provider call can raise (openai.error)
ProviderErrors ==
    { [type |-> "RateLimitError", http_status |-> 429],
      [type |-> "APIError", http_status |-> 502],
      [type |-> "APIError", http_status |-> 500],
      [type |-> "InvalidRequestError", http_status |-> 400] }
IndexError == [type |-> "IndexError", http_status |-> 0]
RuntimeError == [type |-> "RuntimeError", http_status |-> 0]

Configs == [use_claude : BOOLEAN, use_azure : BOOLEAN, debug_mode : BOOLEAN]

NoneResponse == [kind |-> "None", text |-> <<>>, finish |-> "none"]
NoResult == [kind |-> "none", text |-> <<>>, vec |-> "none"]
NoneResult == [kind |-> "None", text |-> <<>>, vec |-> "none"]

\* ---------------------------------------------------------- pure helpers
\* backoff = 2 ** (attempt + 2)
BackoffShort(a) == 2 ^ (a + 1)
BackoffLinear(a) == 4 * (a + 1)
Backoff(a) == 2 ^ (a + 2)

\* prompt = f"{HUMAN_PROMPT} {question} {AI_PROMPT}"
InitialPrompt == <<HUMAN_PROMPT, " ", QUESTION, " ", AI_PROMPT>>
\* f"{HUMAN_PROMPT} {CONTINUE_PROMPT} {AI_PROMPT}"
ContinueSuffix == <<HUMAN_PROMPT, " ", CONTINUE_PROMPT, " ", AI_PROMPT>>

\* data[-1] or d[0] indexes an empty string (d[0] only if data[-1] != ' ')
JoinRaises(dat, d) ==
    \/ dat = <<>>
    \/ dat[Len(dat)] # " " /\ d = <<>>

\* if data[-1] != ' ' and d[0] != ' ': data + " " + d  else: data + d
JoinOverwrite(dat, d) == d
Join(dat, d) ==
    IF dat[Len(dat)] # " " /\ d[1] # " " THEN dat \o <<" ">> \o d ELSE dat \o d

\* while response["stop_reason"] == "max_tokens"
NeverContinue(sr) == FALSE
MustContinue(sr) == sr = "max_tokens"

\* if not warned_user
WarnEveryTime(w) == TRUE
ShouldWarn(w) == ~w

\* except APIError: if e.http_status == 502: pass  else: raise
AnyStatusRetryable(e) == TRUE
IsBadGateway(e) == e.http_status = 502

\* if attempt == num_retries - 1: raise
NeverLastAttempt(a) == FALSE
IsLastAttempt(a) == a = num_retries - 1

\* MAX_TOKEN_ONCE = 4096, the default of sendReq's max_tokens_to_sample
MAX_TOKEN_ONCE == 4096

\* prompt + f"{HUMAN_PROMPT} {CONTINUE_PROMPT} {AI_PROMPT}", the prompt of a
\* continuation request
RestartPrompt(p) == InitialPrompt \o ContinueSuffix
ContinuePrompt(p) == p \o ContinueSuffix

\* break after a successful provider call: the loop is left
NoBreak == "sleep"
BreakTo == "after_loop"

\* warned_user = False at the start of a call
KeepWarned(w) == w
FreshWarned(w) == FALSE

\* logger.typewriter_log("FAILED TO GET RESPONSE FROM OPENAI", ...)
NoticeSkipped(n) == n
NoticeLogged(n) == n + 1

\* if CFG.use_claude: ... elif CFG.use_azure: ... else: ...
RouteAzureFirst(c) ==
    IF c.use_azure THEN "azure" ELSE IF c.use_claude THEN "claude" ELSE "direct"
RouteOf(c) ==
    IF c.use_claude THEN "claude" ELSE IF c.use_azure THEN "azure" ELSE "direct"

\* class of a provider outcome, as the except clauses tell them apart
ClassOf(e) ==
    IF e.type = "RateLimitError" THEN "rate_limit"
    ELSE IF e.type = "APIError" /\ e.http_status = 502 THEN "bad_gateway"
    ELSE IF e.type = "APIError" THEN "api_error"
    ELSE "other_error"

NoPrev == [fn |-> "none", attempts |-> 0, sleeps |-> <<>>, class |-> "none",
           advisories |-> 0]

\* if CFG.debug_mode: raise RuntimeError(...)  else: quit(1)
AlwaysQuit(debug) == "exit"
ExhaustedTerminal(debug) == IF debug THEN "raised" ELSE "exit"

\* ------------------------------------------------------------------ state
VARIABLES
    cfg,          \* CFG: use_claude, use_azure, debug_mode
    fn,           \* function being executed: "none", "chat", "embed"
    pc,           \* position inside the function
    it,           \* next value of range(num_retries)
    attempt,      \* loop variable
    backoff,      \* backoff of the current attempt
    warned_user,  \* create_chat_completion local
    response,     \* create_chat_completion local
    prompt,       \* sendReq local
    data,         \* sendReq local
    stop_reason,  \* response["stop_reason"] of the last completion in sendReq
    exc,          \* exception in flight
    outcome,      \* "none", "returned", "raised", "exit"
    result,       \* value returned to the caller
    raised,       \* exception that reached the caller
    exit_status,  \* status passed to quit
    \* observations of the current call
    attempts,     \* provider attempts started (entries of the try block)
    rounds,       \* continuation requests of the current sendReq
    sleeps,       \* durations passed to time.sleep, in order
    advisories,   \* logger.double_check(<paid account message>) calls
    notices,      \* logger.typewriter_log("FAILED TO GET RESPONSE ...") calls
    rlFailures,   \* attempts that failed with RateLimitError
    gwFailures,   \* attempts that failed with APIError 502
    lastOp,       \* last of "attempt" / "sleep" performed
    last_stop,    \* stop/finish reason of the last response received
    attempt_exc,  \* exception that ended the current attempt, if any
    requests,     \* requests sent by the running sendReq, in order
    received,     \* provider responses received by the current attempt, in order
    routes,       \* provider routes called by the current call
    \* two calls on one sequence of provider outcomes
    mode,         \* "free": any calls, any outcomes; "once": one call;
                  \* "record": outcomes are written to script;
                  \* "replay": outcomes are read from script
    script,       \* outcome class of each attempt of the recorded call
    prev          \* what the recorded call did

locals == <<it, attempt, backoff, warned_user, response, prompt, data, stop_reason, exc>>
ends == <<outcome, result, raised, exit_status>>
seen == <<attempts, rounds, sleeps, advisories, notices, rlFailures, gwFailures, lastOp, last_stop>>
obs == <<seen, attempt_exc>>
trace == <<requests, received, routes>>
harness == <<mode, script, prev>>
vars == <<cfg, fn, pc, locals, ends, obs, trace, harness>>

\* the state before any call, for a set of configurations
Loaded(C) ==
    /\ cfg \in C
    /\ fn = "none"
    /\ pc = "idle"
    /\ it = 0
    /\ attempt = 0
    /\ backoff = 0
    /\ warned_user = FALSE
    /\ response = NoneResponse
    /\ prompt = <<>>
    /\ data = <<>>
    /\ stop_reason = "none"
    /\ exc = NoExc
    /\ outcome = "none"
    /\ result = NoResult
    /\ raised = NoExc
    /\ exit_status = 0
    /\ attempts = 0
    /\ rounds = 0
    /\ sleeps = <<>>
    /\ advisories = 0
    /\ notices = 0
    /\ rlFailures = 0
    /\ gwFailures = 0
    /\ lastOp = "none"
    /\ last_stop = "none"
    /\ attempt_exc = NoExc
    /\ requests = <<>>
    /\ received = <<>>
    /\ routes = {}
    /\ script = <<>>
    /\ prev = NoPrev

Init == Loaded(Configs) /\ mode = "free"

\* a call starts: the caller is idle or a previous call has come back
CanCall ==
    /\ pc \in {"idle", "done"}
    /\ outcome # "exit"
    /\ mode # "replay"
    /\ mode = "once" => pc = "idle"

\* how a finished call ended
TerminalClass ==
    IF outcome = "returned" THEN "result"
    ELSE IF outcome = "exit" \/ raised = RuntimeError THEN "exhausted"
    ELSE IF outcome = "raised" THEN "error"
    ELSE "none"

Summary ==
    [fn |-> fn, attempts |-> attempts, sleeps |-> sleeps, class |-> TerminalClass,
     advisories |-> advisories]

\* the provider outcome of the next attempt, when a script is replayed
Follows(c) == (mode = "replay" /\ attempts < Len(script)) => c = script[attempts + 1]
Recorded(c) == IF mode = "record" THEN Append(script, c) ELSE script

StartCall(f) ==
    /\ CanCall
    /\ fn' = f
    /\ pc' = "for"
    /\ it' = 0
    /\ attempt' = 0
    /\ backoff' = 0
    /\ warned_user' = FreshWarned(warned_user)
    /\ response' = NoneResponse
    /\ prompt' = <<>>
    /\ data' = <<>>
    /\ stop_reason' = "none"
    /\ exc' = NoExc
    /\ outcome' = "none"
    /\ result' = NoResult
    /\ raised' = NoExc
    /\ exit_status' = 0
    /\ attempts' = 0
    /\ rounds' = 0
    /\ sleeps' = <<>>
    /\ advisories' = 0
    /\ notices' = 0
    /\ rlFailures' = 0
    /\ gwFailures' = 0
    /\ lastOp' = "none"
    /\ last_stop' = "none"
    /\ attempt_exc' = NoExc
    /\ requests' = <<>>
    /\ received' = <<>>
    /\ routes' = {}
    /\ IF mode = "record" /\ pc = "done"
       THEN mode' = "replay" /\ prev' = Summary /\ UNCHANGED script
       ELSE UNCHANGED harness
    /\ UNCHANGED cfg

\* the exception e leaves the function
Raise(e) ==
    /\ pc' = "done"
    /\ outcome' = "raised"
    /\ raised' = e
    /\ exc' = NoExc
    /\ prompt' = <<>>
    /\ data' = <<>>
    /\ UNCHANGED <<result, exit_status>>

\* ------------------------------------------------ create_chat_completion
\* response = None; num_retries = 10; warned_user = False
CallChat == StartCall("chat")

\* for attempt in range(num_retries): backoff = 2 ** (attempt + 2)
ChatFor ==
    /\ fn = "chat" /\ pc = "for"
    /\ IF it < num_retries
       THEN /\ attempt' = it
            /\ it' = it + 1
            /\ backoff' = Backoff(it)
            /\ attempt_exc' = NoExc
            /\ received' = <<>>
            /\ pc' = "try"
       ELSE /\ pc' = "after_loop"
            /\ UNCHANGED <<attempt, it, backoff, attempt_exc, received>>
    /\ UNCHANGED <<cfg, fn, warned_user, response, prompt, data, stop_reason, exc, ends,
                   seen, requests, routes, harness>>

\* sendReq up to the first test of the while loop
SendReqFirst ==
    /\ fn = "chat" /\ pc = "try" /\ RouteOf(cfg) = "claude"
    /\ attempts' = attempts + 1
    /\ lastOp' = "attempt"
    /\ rounds' = 0
    /\ routes' = routes \cup {"claude"}
    /\ \/ \E e \in ProviderErrors :
             /\ exc' = e
             /\ attempt_exc' = e
             /\ pc' = "except"
             /\ UNCHANGED <<prompt, data, stop_reason, last_stop, requests, received>>
       \/ \E d \in Fragments, sr \in ClaudeStopReasons :
             /\ requests' = <<[prompt |-> InitialPrompt,
                               max_tokens_to_sample |-> MAX_TOKEN_ONCE]>>
             /\ received' = <<[completion |-> d, stop_reason |-> sr]>>
             /\ data' = d
             /\ prompt' = InitialPrompt \o d
             /\ stop_reason' = sr
             /\ last_stop' = sr
             /\ pc' = "sendReq_while"
             /\ UNCHANGED <<exc, attempt_exc>>
    /\ UNCHANGED <<cfg, fn, it, attempt, backoff, warned_user, response, ends,
                   sleeps, advisories, notices, rlFailures, gwFailures, harness>>

\* one iteration of the while loop of sendReq
SendReqContinue ==
    /\ fn = "chat" /\ pc = "sendReq_while"
    /\ MustContinue(stop_reason)
    /\ rounds < MaxRounds
    /\ rounds' = rounds + 1
    /\ \/ \E e \in ProviderErrors :
             /\ exc' = e
             /\ attempt_exc' = e
             /\ pc' = "except"
             /\ prompt' = <<>>
             /\ data' = <<>>
             /\ requests' = <<>>
             /\ UNCHANGED <<stop_reason, last_stop, received>>
       \/ \E d \in Fragments, sr \in ClaudeStopReasons :
             /\ sr = "max_tokens" => rounds + 1 < MaxRounds
             /\ last_stop' = sr
             /\ received' = Append(received, [completion |-> d, stop_reason |-> sr])
             /\ IF JoinRaises(data, d)
                THEN /\ exc' = IndexError
                     /\ attempt_exc' = IndexError
                     /\ pc' = "except"
                     /\ prompt' = <<>>
                     /\ data' = <<>>
                     /\ requests' = <<>>
                     /\ UNCHANGED stop_reason
                ELSE /\ requests' = Append(requests,
                                        [prompt |-> ContinuePrompt(prompt),
                                         max_tokens_to_sample |-> MAX_TOKEN_ONCE])
                     /\ prompt' = ContinuePrompt(prompt) \o d
                     /\ data' = Join(data, d)
                     /\ stop_reason' = sr
                     /\ pc' = "sendReq_while"
                     /\ UNCHANGED <<exc, attempt_exc>>
    /\ UNCHANGED <<cfg, fn, it, attempt, backoff, warned_user, response, ends,
                   attempts, sleeps, advisories, notices, rlFailures, gwFailures, lastOp,
                   routes, harness>>

\* return data; response = sendReq(messages); break
SendReqReturn ==
    /\ fn = "chat" /\ pc = "sendReq_while"
    /\ ~MustContinue(stop_reason)
    /\ response' = [kind |-> "str", text |-> data, finish |-> stop_reason]
    /\ prompt' = <<>>
    /\ data' = <<>>
    /\ stop_reason' = "none"
    /\ requests' = <<>>
    /\ pc' = BreakTo
    /\ UNCHANGED <<cfg, fn, it, attempt, backoff, warned_user, exc, ends, obs,
                   received, routes, harness>>

\* response = openai.ChatCompletion.create(...); break   (Azure or direct)
ChatCompletionCreate ==
    /\ fn = "chat" /\ pc = "try" /\ RouteOf(cfg) \in {"azure", "direct"}
    /\ attempts' = attempts + 1
    /\ lastOp' = "attempt"
    /\ routes' = routes \cup {RouteOf(cfg)}
    /\ \/ \E e \in ProviderErrors :
             /\ Follows(ClassOf(e))
             /\ script' = Recorded(ClassOf(e))
             /\ exc' = e
             /\ attempt_exc' = e
             /\ pc' = "except"
             /\ UNCHANGED <<response, last_stop, received>>
       \/ \E d \in Fragments, fr \in ChatFinishReasons :
             /\ Follows("ok")
             /\ script' = Recorded("ok")
             /\ response' = [kind |-> "ChatCompletion", text |-> d, finish |-> fr]
             /\ received' = <<[completion |-> d, stop_reason |-> fr]>>
             /\ last_stop' = fr
             /\ pc' = BreakTo
             /\ UNCHANGED <<exc, attempt_exc>>
    /\ UNCHANGED <<cfg, fn, it, attempt, backoff, warned_user, prompt, data, stop_reason,
                   ends, rounds, sleeps, advisories, notices, rlFailures, gwFailures,
                   requests, mode, prev>>

\* except RateLimitError: advisory once, then fall through to the sleep
ChatExceptRateLimitError ==
    /\ fn = "chat" /\ pc = "except"
    /\ exc.type = "RateLimitError"
    /\ rlFailures' = rlFailures + 1
    /\ IF ShouldWarn(warned_user)
       THEN advisories' = advisories + 1 /\ warned_user' = TRUE
       ELSE UNCHANGED <<advisories, warned_user>>
    /\ exc' = NoExc
    /\ pc' = "sleep"
    /\ UNCHANGED <<cfg, fn, it, attempt, backoff, response, prompt, data, stop_reason,
                   ends, attempts, rounds, sleeps, notices, gwFailures, lastOp, last_stop,
                   attempt_exc, trace, harness>>

\* except APIError as e: 502 passes unless it is the last attempt
ChatExceptAPIError ==
    /\ fn = "chat" /\ pc = "except"
    /\ exc.type = "APIError"
    /\ IF IsBadGateway(exc)
       THEN /\ gwFailures' = gwFailures + 1
            /\ IF IsLastAttempt(attempt)
               THEN Raise(exc)
               ELSE /\ exc' = NoExc
                    /\ pc' = "sleep"
                    /\ UNCHANGED <<prompt, data, ends>>
       ELSE /\ Raise(exc)
            /\ UNCHANGED gwFailures
    /\ UNCHANGED <<cfg, fn, it, attempt, backoff, warned_user, response, stop_reason,
                   attempts, rounds, sleeps, advisories, notices, rlFailures, lastOp,
                   last_stop, attempt_exc, trace, harness>>

\* an exception no except clause matches leaves the function
ChatUncaught ==
    /\ fn = "chat" /\ pc = "except"
    /\ exc.type \notin {"RateLimitError", "APIError"}
    /\ Raise(exc)
    /\ UNCHANGED <<cfg, fn, it, attempt, backoff, warned_user, response, stop_reason, obs,
                   trace, harness>>

\* time.sleep(backoff)
ChatSleep ==
    /\ fn = "chat" /\ pc = "sleep"
    /\ sleeps' = Append(sleeps, backoff)
    /\ lastOp' = "sleep"
    /\ pc' = "for"
    /\ UNCHANGED <<cfg, fn, locals, ends, attempts, rounds, advisories, notices,
                   rlFailures, gwFailures, last_stop, attempt_exc, trace, harness>>

\* if response is None: log the failure notice
ChatFailed ==
    /\ fn = "chat" /\ pc = "after_loop"
    /\ response.kind = "None"
    /\ notices' = NoticeLogged(notices)
    /\ pc' = "failed"
    /\ UNCHANGED <<cfg, fn, locals, ends, attempts, rounds, sleeps, advisories,
                   rlFailures, gwFailures, lastOp, last_stop, attempt_exc, trace, harness>>

\* if CFG.debug_mode: raise RuntimeError(...)  else: quit(1)
ChatTerminate ==
    /\ fn = "chat" /\ pc = "failed"
    /\ pc' = "done"
    /\ outcome' = ExhaustedTerminal(cfg.debug_mode)
    /\ IF ExhaustedTerminal(cfg.debug_mode) = "raised"
       THEN raised' = RuntimeError /\ UNCHANGED exit_status
       ELSE exit_status' = 1 /\ UNCHANGED raised
    /\ UNCHANGED <<cfg, fn, locals, result, obs, trace, harness>>

\* return response  /  return response.choices[0].message["content"]
ChatReturn ==
    /\ fn = "chat" /\ pc = "after_loop"
    /\ response.kind # "None"
    /\ result' = IF cfg.use_claude
                 THEN [kind |-> response.kind, text |-> response.text, vec |-> "none"]
                 ELSE [kind |-> "str", text |-> response.text, vec |-> "none"]
    /\ outcome' = "returned"
    /\ pc' = "done"
    /\ UNCHANGED <<cfg, fn, locals, raised, exit_status, obs, trace, harness>>

\* -------------------------------------------- create_embedding_with_ada
\* num_retries = 10
CallEmbed == StartCall("embed")

\* for attempt in range(num_retries): backoff = 2 ** (attempt + 2)
EmbedFor ==
    /\ fn = "embed" /\ pc = "for"
    /\ IF it < num_retries
       THEN /\ attempt' = it
            /\ it' = it + 1
            /\ backoff' = Backoff(it)
            /\ attempt_exc' = NoExc
            /\ received' = <<>>
            /\ pc' = "try"
            /\ UNCHANGED ends
       ELSE \* the loop ends and the function falls off its end
            /\ pc' = "done"
            /\ outcome' = "returned"
            /\ result' = NoneResult
            /\ UNCHANGED <<attempt, it, backoff, raised, exit_status, attempt_exc, received>>
    /\ UNCHANGED <<cfg, fn, warned_user, response, prompt, data, stop_reason, exc, seen,
                   requests, routes, harness>>

\* return openai.Embedding.create(...)["data"][0]["embedding"]  (Azure or direct)
EmbeddingCreate ==
    /\ fn = "embed" /\ pc = "try"
    /\ attempts' = attempts + 1
    /\ lastOp' = "attempt"
    /\ \/ \E e \in ProviderErrors :
             /\ Follows(ClassOf(e))
             /\ script' = Recorded(ClassOf(e))
             /\ exc' = e
             /\ attempt_exc' = e
             /\ pc' = "except"
             /\ UNCHANGED <<ends, received>>
       \/ \E dat \in EmbeddingData :
             /\ Follows("ok")
             /\ script' = Recorded("ok")
             /\ received' = <<dat>>
             /\ result' = [kind |-> "vector", text |-> <<>>, vec |-> dat[1]]
             /\ outcome' = "returned"
             /\ pc' = "done"
             /\ UNCHANGED <<exc, raised, exit_status, attempt_exc>>
    /\ UNCHANGED <<cfg, fn, it, attempt, backoff, warned_user, response, prompt, data,
                   stop_reason, rounds, sleeps, advisories, notices, rlFailures,
                   gwFailures, last_stop, requests, routes, mode, prev>>

\* except RateLimitError: pass
EmbedExceptRateLimitError ==
    /\ fn = "embed" /\ pc = "except"
    /\ exc.type = "RateLimitError"
    /\ rlFailures' = rlFailures + 1
    /\ exc' = NoExc
    /\ pc' = "sleep"
    /\ UNCHANGED <<cfg, fn, it, attempt, backoff, warned_user, response, prompt, data,
                   stop_reason, ends, attempts, rounds, sleeps, advisories, notices,
                   gwFailures, lastOp, last_stop, attempt_exc, trace, harness>>

\* except APIError as e: 502 passes unless it is the last attempt
EmbedExceptAPIError ==
    /\ fn = "embed" /\ pc = "except"
    /\ exc.type = "APIError"
    /\ IF IsBadGateway(exc)
       THEN /\ gwFailures' = gwFailures + 1
            /\ IF IsLastAttempt(attempt)
               THEN Raise(exc)
               ELSE /\ exc' = NoExc
                    /\ pc' = "sleep"
                    /\ UNCHANGED <<prompt, data, ends>>
       ELSE /\ Raise(exc)
            /\ UNCHANGED gwFailures
    /\ UNCHANGED <<cfg, fn, it, attempt, backoff, warned_user, response, stop_reason,
                   attempts, rounds, sleeps, advisories, notices, rlFailures, lastOp,
                   last_stop, attempt_exc, trace, harness>>

\* an exception no except clause matches leaves the function
EmbedUncaught ==
    /\ fn = "embed" /\ pc = "except"
    /\ exc.type \notin {"RateLimitError", "APIError"}
    /\ Raise(exc)
    /\ UNCHANGED <<cfg, fn, it, attempt, backoff, warned_user, response, stop_reason, obs,
                   trace, harness>>

\* time.sleep(backoff)
EmbedSleep ==
    /\ fn = "embed" /\ pc = "sleep"
    /\ sleeps' = Append(sleeps, backoff)
    /\ lastOp' = "sleep"
    /\ pc' = "for"
    /\ UNCHANGED <<cfg, fn, locals, ends, attempts, rounds, advisories, notices,
                   rlFailures, gwFailures, last_stop, attempt_exc, trace, harness>>

\* ---------------------------------------------------------- specifications
Next ==
    \/ CallChat
    \/ ChatFor
    \/ SendReqFirst
    \/ SendReqContinue
    \/ SendReqReturn
    \/ ChatCompletionCreate
    \/ ChatExceptRateLimitError
    \/ ChatExceptAPIError
    \/ ChatUncaught
    \/ ChatSleep
    \/ ChatFailed
    \/ ChatTerminate
    \/ ChatReturn
    \/ CallEmbed
    \/ EmbedFor
    \/ EmbeddingCreate
    \/ EmbedExceptRateLimitError
    \/ EmbedExceptAPIError
    \/ EmbedUncaught
    \/ EmbedSleep

Spec == Init /\ [][Next]_vars

\* The interpreter runs a called function on: some step of the running call
\* is taken as long as one is possible.
Running ==
    \/ ChatFor
    \/ SendReqFirst
    \/ SendReqContinue
    \/ SendReqReturn
    \/ ChatCompletionCreate
    \/ ChatExceptRateLimitError
    \/ ChatExceptAPIError
    \/ ChatUncaught
    \/ ChatSleep
    \/ ChatFailed
    \/ ChatTerminate
    \/ ChatReturn
    \/ EmbedFor
    \/ EmbeddingCreate
    \/ EmbedExceptRateLimitError
    \/ EmbedExceptAPIError
    \/ EmbedUncaught
    \/ EmbedSleep

\* one call, run to its end; use_azure is read only when use_claude is
\* unset, so the configurations with both set are left out
LiveInit == Loaded({c \in Configs : ~(c.use_claude /\ c.use_azure)}) /\ mode = "once"

LiveSpec == LiveInit /\ [][Next]_vars /\ WF_vars(Running)

\* Two calls, one after the other, on the chat and embedding endpoints of
\* the OpenAI client: the first call's provider outcomes are recorded and
\* the provider answers the attempts of the second call with the same
\* outcomes, in the same order.
PairInit == Loaded({c \in Configs : ~c.use_claude}) /\ mode = "record"

PairNext ==
    \/ CallChat
    \/ ChatFor
    \/ ChatCompletionCreate
    \/ ChatExceptRateLimitError
    \/ ChatExceptAPIError
    \/ ChatUncaught
    \/ ChatSleep
    \/ ChatFailed
    \/ ChatTerminate
    \/ ChatReturn
    \/ CallEmbed
    \/ EmbedFor
    \/ EmbeddingCreate
    \/ EmbedExceptRateLimitError
    \/ EmbedExceptAPIError
    \/ EmbedUncaught
    \/ EmbedSleep

PairSpec == PairInit /\ [][PairNext]_vars

\* ---------------------------------------------------------------- claims
Done == pc = "done"
BadGateway502 == [type |-> "APIError", http_status |-> 502]
RateLimit429 == [type |-> "RateLimitError", http_status |-> 429]
\* provider errors that are neither a rate limit nor an APIError 502
FatalProviderErrors == ProviderErrors \ {RateLimit429, BadGateway502}
ExpectedPauses == <<4, 8, 16, 32, 64, 128, 256, 512, 1024, 2048>>

\* C1: in both functions the attempt index stays in 0..9 and at most 10
\* provider attempts are made, whatever the provider answers.
C1_AttemptCeiling ==
    /\ attempt \in 0..9
    /\ attempts <= 10
    /\ attempts <= attempt + 1

C1_Witness == Done /\ attempts = 10 /\ rlFailures = 10

\* C2 (as stated): ten retryable failures of create_chat_completion end in
\* an exception raised to the caller in debug mode and in a process exit
\* with a non-zero status otherwise.
C2_AsStated ==
    (fn = "chat" /\ Done /\ rlFailures + gwFailures = 10) =>
        IF cfg.debug_mode
        THEN outcome = "raised"
        ELSE outcome = "exit" /\ exit_status # 0

\* C2 (amended): after ten retryable failures of create_chat_completion, if
\* the tenth failure was a rate limit the call raises RuntimeError in debug
\* mode and exits with status 1 otherwise; if the tenth failure was a 502
\* the APIError is raised to the caller in both modes and nothing exits.
C2_Exhausted ==
    (fn = "chat" /\ Done /\ rlFailures + gwFailures = 10) =>
        IF attempt_exc = BadGateway502
        THEN outcome = "raised" /\ raised = BadGateway502 /\ exit_status = 0
        ELSE IF cfg.debug_mode
             THEN outcome = "raised" /\ raised = RuntimeError /\ exit_status = 0
             ELSE outcome = "exit" /\ exit_status = 1 /\ raised = NoExc

C2_Witness ==
    /\ fn = "chat" /\ Done /\ rlFailures + gwFailures = 10
    /\ rlFailures >= 1 /\ gwFailures >= 1
    /\ ~cfg.debug_mode /\ outcome = "exit"

\* C3: a 502 raised by the attempt with index 9 reaches the caller as that
\* same APIError, in both functions, whatever the earlier attempts raised.
C3_LastGatewayRaised ==
    /\ (attempt = 9 /\ attempt_exc = BadGateway502) => pc \in {"except", "done"}
    /\ (Done /\ attempt = 9 /\ attempt_exc = BadGateway502) =>
          /\ outcome = "raised"
          /\ raised = BadGateway502
          /\ result = NoResult

C3_Witness ==
    /\ Done /\ attempt = 9 /\ attempt_exc = BadGateway502
    /\ outcome = "raised" /\ rlFailures >= 1 /\ gwFailures >= 2

\* C4: a provider error that is neither a rate limit nor a 502 ends the
\* call at once: it is the exception the caller gets, no attempt and no
\* sleep follow it (every sleep of the call precedes the failing attempt).
C4_FatalAborts ==
    /\ attempt_exc \in FatalProviderErrors => pc \in {"except", "done"}
    /\ (Done /\ attempt_exc \in FatalProviderErrors) =>
          /\ outcome = "raised"
          /\ raised = attempt_exc
          /\ attempts = attempt + 1
          /\ lastOp = "attempt"
          /\ Len(sleeps) = attempt

C4_Witness ==
    /\ Done /\ attempt_exc \in FatalProviderErrors
    /\ attempt >= 2 /\ raised = attempt_exc

\* C5: in create_chat_completion the paid-account advisory has been emitted
\* once as soon as one attempt has failed with a rate limit, and never more
\* than once, and not at all while no attempt has.
C5_AdvisoryOnce ==
    fn = "chat" => advisories = (IF rlFailures >= 1 THEN 1 ELSE 0)

C5_Witness ==
    fn = "chat" /\ Done /\ rlFailures >= 3 /\ gwFailures >= 2 /\ advisories = 1

\* C6: the k-th sleep of a call follows the failure of attempt k-1 and
\* lasts 2^(k+1) seconds (4, 8, ..., 2048), in both functions and for both
\* retryable errors.
C6_BackoffDelays ==
    /\ Len(sleeps) <= 10
    /\ \A k \in 1..Len(sleeps) : sleeps[k] = ExpectedPauses[k]
    /\ (pc = "for" /\ lastOp = "sleep") => Len(sleeps) = attempt + 1
    /\ pc = "sleep" => backoff = ExpectedPauses[attempt + 1] /\ Len(sleeps) = attempt

C6_Witness ==
    /\ Len(sleeps) = 10 /\ sleeps[10] = 2048
    /\ rlFailures >= 1 /\ gwFailures >= 1

\* C7: every sleep is followed by another provider attempt, so a call never
\* ends on a sleep and sleeps at most 9 times.
C7_SleepBeforeNextAttempt ==
    /\ Len(sleeps) <= 9
    /\ Done => lastOp # "sleep"

\* C8: whenever create_chat_completion returns a text, the last provider
\* response it was built from was not length-limited, on every route.
C8_NoPartialResult ==
    (fn = "chat" /\ outcome = "returned") => last_stop \notin {"max_tokens", "length"}

\* C9: joining a fragment to the buffer inserts one space exactly when
\* neither boundary character is whitespace.
IsWhitespace(c) == c \in {" ", "\n", "\t", "\r"}
SpecJoin(dat, d) ==
    IF dat # <<>> /\ d # <<>> /\ ~IsWhitespace(dat[Len(dat)]) /\ ~IsWhitespace(d[1])
    THEN dat \o <<" ">> \o d
    ELSE dat \o d
\* the fragment appended to the transcript by a continuation step
Appended(old, new) == SubSeq(new, Len(old) + Len(ContinueSuffix) + 1, Len(new))
C9_WhitespaceJoin ==
    [][(pc = "sendReq_while" /\ pc' = "sendReq_while")
         => data' = SpecJoin(data, Appended(prompt, prompt'))]_vars

\* C10: whenever create_embedding_with_ada returns normally, it returns the
\* embedding vector of a response.
C10_EmbedReturnsVector ==
    (fn = "embed" /\ outcome = "returned") => (result.kind = "vector" /\ result.vec \in Vectors)

\* ------------------------------------------------- claims, second part
ContinuationCue == <<"HUMAN_PROMPT", " ", "... continue", " ", "AI_PROMPT">>
FirstPrompt == <<"HUMAN_PROMPT", " ", "question", " ", "AI_PROMPT">>
ExpectedTotals == <<0, 4, 12, 28, 60, 124, 252, 508, 1020, 2044>>

RECURSIVE SumSeq(_)
SumSeq(s) == IF s = <<>> THEN 0 ELSE Head(s) + SumSeq(Tail(s))

IsPrefix(s, t) == Len(s) <= Len(t) /\ SubSeq(t, 1, Len(s)) = s

\* frs[1] .. frs[n] written one after the other, frs[k+1] preceded by a
\* space where sp[k] = 1
RECURSIVE Glue(_, _, _)
Glue(frs, sp, n) ==
    IF n = 0 THEN <<>>
    ELSE IF n = 1 THEN frs[1].completion
    ELSE Glue(frs, sp, n - 1)
           \o (IF sp[n - 1] = 1 THEN <<" ">> ELSE <<>>)
           \o frs[n].completion

\* text is made of the fragments frs, each once and in order, with at most
\* one space put between two neighbours
IsStitchOf(text, frs) ==
    /\ frs # <<>>
    /\ \E sp \in [1..(Len(frs) - 1) -> {0, 1}] : text = Glue(frs, sp, Len(frs))

\* the current attempt has got its response and no exception
AttemptSucceeded == received # <<>> /\ attempt_exc = NoExc /\ pc # "sendReq_while"

\* C11: on one sequence of provider outcomes create_chat_completion and
\* create_embedding_with_ada make the same number of attempts, sleep the
\* same durations and end in the same class of terminal outcome.
C11_SameRetryPolicy ==
    (mode = "replay" /\ Done /\ prev.fn # fn) =>
        /\ attempts = prev.attempts
        /\ sleeps = prev.sleeps
        /\ TerminalClass = prev.class

\* C12: when create_chat_completion finds no response after the loop, the
\* failure notice is logged once, before the RuntimeError or the exit; a
\* call that returns a result has logged no notice.
C12_NoticeBeforeTerminal ==
    fn = "chat" =>
        /\ notices <= 1
        /\ pc = "failed" => (notices = 1 /\ outcome = "none")
        /\ (Done /\ (raised = RuntimeError \/ outcome = "exit")) => notices = 1
        /\ outcome = "returned" => notices = 0
        /\ notices = 1 => (response.kind = "None" /\ attempts = 10)

C12_Witness ==
    fn = "chat" /\ Done /\ outcome = "exit" /\ exit_status = 1 /\ notices = 1

\* C13: inside sendReq, request k+1 carries the prompt of request k, then
\* the fragment answered to request k, then the continuation cue; earlier
\* prompts are prefixes of later ones; a request follows a response exactly
\* when its stop reason is max_tokens; max_tokens_to_sample never changes.
C13_GrowingTranscript ==
    /\ pc = "sendReq_while" =>
          /\ Len(requests) = Len(received)
          /\ Len(requests) = rounds + 1
          /\ \A k \in 1..(Len(requests) - 1) :
                /\ requests[k + 1].prompt =
                      requests[k].prompt \o received[k].completion \o ContinuationCue
                /\ received[k].stop_reason = "max_tokens"
          /\ \A j \in 1..Len(requests), k \in 1..Len(requests) :
                /\ j <= k => IsPrefix(requests[j].prompt, requests[k].prompt)
                /\ requests[j].max_tokens_to_sample = requests[k].max_tokens_to_sample
    /\ (fn = "chat" /\ response.kind = "str") =>
          /\ received # <<>>
          /\ received[Len(received)].stop_reason # "max_tokens"

C13_Witness ==
    /\ pc = "sendReq_while" /\ Len(requests) = 2
    /\ received[1].completion # <<>> /\ received[2].completion # <<>>
    /\ attempt >= 1

\* C14: once an attempt has succeeded the loop is over: no attempt and no
\* sleep follows, and the value returned comes from the response(s) of
\* that attempt: the stitched fragments, choices[0], or data[0].embedding.
C14_FirstSuccessEnds ==
    AttemptSucceeded =>
        /\ pc \in {"after_loop", "done"}
        /\ lastOp = "attempt"
        /\ attempts = attempt + 1
        /\ Len(sleeps) = attempt
        /\ Done =>
              /\ outcome = "returned"
              /\ fn = "embed" => (result.kind = "vector" /\ result.vec = received[1][1])
              /\ (fn = "chat" /\ ~cfg.use_claude) =>
                    (Len(received) = 1 /\ result.text = received[1].completion)
              /\ (fn = "chat" /\ cfg.use_claude) => IsStitchOf(result.text, received)

C14_Witness ==
    /\ Done /\ AttemptSucceeded /\ fn = "chat" /\ cfg.use_claude
    /\ Len(received) = 2 /\ attempt >= 2 /\ outcome = "returned"

\* C15: a call that succeeds at attempt k has failed k times with a
\* retryable error and slept k times, 2^(k+2) - 4 seconds in all.
C15_TotalDelay ==
    (AttemptSucceeded /\ pc \in {"after_loop", "done"}) =>
        /\ rlFailures + gwFailures = attempt
        /\ Len(sleeps) = attempt
        /\ SumSeq(sleeps) = ExpectedTotals[attempt + 1]

C15_Witness ==
    /\ AttemptSucceeded /\ Done /\ attempt = 9
    /\ rlFailures >= 1 /\ gwFailures >= 1 /\ SumSeq(sleeps) = 2044

\* C16: every call comes to an end when the provider stops answering
\* max_tokens after at most MaxRounds continuation requests; sendReq itself
\* never leaves the loop after a max_tokens response: its next step is
\* another request.
C16_Terminates ==
    /\ (pc \notin {"idle", "done"}) ~> (pc = "done")
    /\ [][(pc = "sendReq_while" /\ stop_reason = "max_tokens")
            => (pc' \in {"sendReq_while", "except"} /\ rounds' = rounds + 1)]_vars

C16_Witness ==
    /\ fn = "chat" /\ Done /\ outcome = "returned"
    /\ rounds = MaxRounds /\ Len(received) = MaxRounds + 1

\* C17: what sendReq has built is dropped when an attempt fails; the next
\* attempt sends the initial prompt again and its transcript holds only its
\* own fragments; the text returned is made of the fragments of the
\* successful attempt, each once and in order.
C17_RetryRestarts ==
    (fn = "chat" /\ cfg.use_claude) =>
        /\ pc \in {"except", "sleep", "for", "try"} =>
              (prompt = <<>> /\ data = <<>> /\ requests = <<>>)
        /\ pc = "sendReq_while" =>
              /\ requests[1].prompt = FirstPrompt
              /\ Len(received) = rounds + 1
              /\ IsPrefix(FirstPrompt \o received[1].completion, prompt)
              /\ IsStitchOf(data, received)
        /\ outcome = "returned" => IsStitchOf(result.text, received)

C17_Witness ==
    /\ fn = "chat" /\ cfg.use_claude
    /\ pc = "try" /\ attempt >= 1 /\ rounds >= 1
    /\ received = <<>> /\ prompt = <<>>

\* C18: sendReq raises no error of its own, whatever fragments it is given.
C18_StitchTotal == attempt_exc # IndexError /\ raised # IndexError

\* C19: a second call starts with attempt index 0, backoff 4 and no warning
\* given, and on the provider outcomes of the first call it makes the same
\* attempts, sleeps and advisory as the first call did.
C19_FreshRetryState ==
    mode = "replay" =>
        /\ (pc = "try" /\ attempts = 0) =>
              (attempt = 0 /\ backoff = 4 /\ ~warned_user /\ sleeps = <<>>)
        /\ (Done /\ prev.fn = fn) =>
              /\ attempts = prev.attempts
              /\ sleeps = prev.sleeps
              /\ advisories = prev.advisories
              /\ TerminalClass = prev.class

C19_Witness ==
    /\ mode = "replay" /\ Done /\ fn = "chat" /\ prev.fn = "chat"
    /\ prev.advisories = 1 /\ advisories = 1 /\ Len(sleeps) >= 2

\* C20: all attempts of a create_chat_completion call go to one route: the
\* Claude route if use_claude, else Azure if use_azure, else the direct
\* route; the value returned is the string of sendReq on the Claude route
\* and the content of choices[0] of a chat response on the other two.
C20_OneRoute ==
    fn = "chat" =>
        LET expected == IF cfg.use_claude THEN "claude"
                        ELSE IF cfg.use_azure THEN "azure" ELSE "direct"
        IN  /\ routes \subseteq {expected}
            /\ attempts >= 1 => routes = {expected}
            /\ outcome = "returned" =>
                  /\ result.kind = "str"
                  /\ response.kind = (IF cfg.use_claude THEN "str" ELSE "ChatCompletion")

C20_Witness ==
    /\ fn = "chat" /\ cfg.use_claude /\ cfg.use_azure
    /\ attempts >= 2 /\ routes = {"claude"} /\ outcome = "returned"

====
